---- MODULE Spec2Model ----
(***************************************************************************)
(* CO2 monitor in CircuitPython: the SCD40 script and the SGP30 script of  *)
(* the repository.  One behaviour of the model is one run of one of the    *)
(* two scripts (variant), from the end of its set-up code through the      *)
(* iterations of its "while True" loop.  Time is the value returned by     *)
(* time.monotonic(), counted in clock units of 1/Hz second.                *)
(***************************************************************************)
EXTENDS Integers, Sequences, FiniteSets, TLC

VARIABLES
    variant,              \* which script runs: "SCD40" or "SGP30"
    running,              \* FALSE when set-up ended with an uncaught exception
    horizon,              \* which stretch of the run is sampled: "display", "baseline",
                          \* "loading" or "saving"
    now,                  \* earliest value the next time.monotonic() can return
    slept,                \* argument of the latest time.sleep call
    display,              \* the labels, the icon and the background palette
    prev_values,          \* the dictionary of previous values
    animation_frame,
    last_animation_time,
    start_time,
    last_baseline_save,
    baseline_file,        \* contents of sgp30_baseline.json
    iaq_baseline,         \* what set_iaq_baseline was given at start-up
    led,                  \* led.value
    tick_kind,            \* what the last iteration did
    call,                 \* arguments of the latest update_labels call
    writes,               \* display attributes assigned by the last iteration
    status,               \* result of the last check_warmup_status call
    save_result,          \* what save_baseline did in the last iteration
    save_invoked_at,      \* clock value read by the latest save_baseline call
    save_wrote_at,        \* clock value read by the latest completed write
    saved_values          \* the sensor's baseline that the latest completed write dumped

vars == <<variant, running, horizon, now, slept, display, prev_values, animation_frame,
          last_animation_time, start_time, last_baseline_save, baseline_file,
          iaq_baseline, led, tick_kind, call, writes, status, save_result,
          save_invoked_at, save_wrote_at, saved_values>>

-----------------------------------------------------------------------------
(* Python's None and a present value *)
None == <<>>
Some(v) == <<v>>

(* Clock units per second *)
Hz == 100

(* Sensor constants *)
CO2_THRESHOLD == 1000
VOC_THRESHOLD == 250
UPDATE_INTERVAL == 4 * Hz
WARMUP_TIME == 15 * Hz
CALIBRATION_TIME == 12 * 3600 * Hz
BASELINE_SAVE_INTERVAL == 3600 * Hz

(* Animation constants: 0.05 s and 0.01 s *)
LOADING_INTERVAL == (5 * Hz) \div 100
LOADING_PHASE_SLEEP == (1 * Hz) \div 100
SPINNER_CHARS == <<"|", "/", "-", "\\">>

(* Colour constants, 0x000000 0xFFFFFF 0x00FF00 0xFF0000 *)
COLOR_BLACK == 0
COLOR_WHITE == 16777215
COLOR_GREEN == 65280
COLOR_RED == 16711680

(* The two glyphs of the icon font, by code point *)
ICON_OK == "U+F118"
ICON_ALERT == "U+F119"

-----------------------------------------------------------------------------
(* Bounds of the model *)
MaxLoad == 6       \* clock values start_time + 0..MaxLoad are sampled in the loading phase
MaxSteady == 3     \* sampled iterations UPDATE_INTERVAL apart (SCD40)
MaxSaves == 1      \* save intervals sampled after calibration (SGP30)
MaxOverhead == 1   \* clock units an iteration takes beyond its sleep ("loading" horizon)

(* The span of the "loading" horizon: the first 2 seconds *)
LoadingSpan == 2 * Hz

(* Values the sensors deliver; one reading only where the baseline is followed *)
CO2Readings(h) == IF h = "display" THEN {800, 1000, 1200} ELSE {800}
TemperatureReadings == {211, 217}      \* tenths of a degree Celsius
HumidityReadings == {405, 412}         \* tenths of a percent
TVOCReadings(h) == IF h = "display" THEN {249, 250} ELSE {249}
BaselineReadings == {[eCO2 |-> 36000, TVOC |-> 37000], [eCO2 |-> 37000, TVOC |-> 36000]}

(* Values of the clock when the set-up code reads it *)
BootClock == {0, 1}

(* Clock units that pass between two clock reads of one iteration *)
Drift == {0, 1}

-----------------------------------------------------------------------------
(* int(x) of a rational n/d: truncation toward zero *)
IntTrunc(n, d) == IF n >= 0 THEN n \div d ELSE -((-n) \div d)

(* int((temperature * (9 / 5)) + 32), temperature given in tenths of a degree *)
Fahrenheit(tenths) == IntTrunc(tenths * 9 + 1600, 50)

(* int(relative_humidity), humidity given in tenths of a percent *)
HumidityPercent(tenths) == IntTrunc(tenths, 10)

(* co2 >= CO2_THRESHOLD *)
IsHighStrict(co2) == co2 > CO2_THRESHOLD

IsHigh(co2) == co2 >= CO2_THRESHOLD

-----------------------------------------------------------------------------
(* The display objects created by the set-up code, after show_loading_screen *)
Label(text, color) == [text |-> text, color |-> color]

InitDisplaySCD40 ==
    [color_palette |-> [entry0 |-> COLOR_BLACK],
     co2_label   |-> Label("Loading...", COLOR_WHITE),
     co2_value   |-> Label("", COLOR_WHITE),
     temp_label  |-> Label("...", COLOR_WHITE),
     humid_label |-> Label("...", COLOR_WHITE),
     icon_label  |-> Label("", COLOR_GREEN)]

InitDisplaySGP30 ==
    [color_palette |-> [entry0 |-> COLOR_BLACK],
     co2_label  |-> Label("Loading...", COLOR_WHITE),
     co2_value  |-> Label("", COLOR_WHITE),
     voc_status |-> Label("", COLOR_WHITE),
     voc_label  |-> Label("", COLOR_WHITE),
     icon_label |-> Label("", COLOR_GREEN)]

InitPrevSCD40 == [co2 |-> None, temp |-> None, humidity |-> None, is_high |-> None]
InitPrevSGP30 == [co2 |-> None, voc |-> None, is_high |-> None]

(* The result of a function that works on the display and the cache *)
Frame(d, pv, w, l) == [display |-> d, prev_values |-> pv, writes |-> w, led |-> l]

Headline(is_high) == "CO2: " \o (IF is_high THEN "HIGH" ELSE "good")

-----------------------------------------------------------------------------
(* update_spinner_animation(frame), frame counted from 0 *)
update_spinner_animation_scd40(d, frame) ==
    [display |-> [d EXCEPT !.co2_label.text = "Loading " \o SPINNER_CHARS[frame + 1],
                           !.temp_label.text = SPINNER_CHARS[frame + 1],
                           !.humid_label.text = SPINNER_CHARS[frame + 1]],
     writes |-> {<<"co2_label", "text">>, <<"temp_label", "text">>,
                 <<"humid_label", "text">>}]

update_spinner_animation_sgp30(d, frame) ==
    [display |-> [d EXCEPT !.co2_label.text = "Loading " \o SPINNER_CHARS[frame + 1],
                           !.voc_label.text = SPINNER_CHARS[frame + 1]],
     writes |-> {<<"co2_label", "text">>, <<"voc_label", "text">>}]

-----------------------------------------------------------------------------
(* The guards of update_labels: prev_values[...] != new value *)
IsHighChangedAlways(pv, is_high) == TRUE

IsHighChanged(pv, is_high) == pv.is_high # Some(is_high)

Co2ChangedAlways(pv, co2) == TRUE

Co2Changed(pv, co2) == pv.co2 # Some(co2)

TempChangedAlways(pv, temp) == TRUE

TempChanged(pv, temp) == pv.temp # Some(temp)

HumidityChanged(pv, humidity) == pv.humidity # Some(humidity)

VocChanged(pv, voc) == pv.voc # Some(voc)

(* The is_high branch of update_labels: palette, text colours, icon *)
FlipSCD40(d, is_high) ==
    LET new_color == IF is_high THEN COLOR_BLACK ELSE COLOR_WHITE
    IN  [d EXCEPT !.color_palette.entry0 = IF is_high THEN COLOR_WHITE ELSE COLOR_BLACK,
                  !.co2_label.color = new_color,
                  !.co2_value.color = new_color,
                  !.temp_label.color = new_color,
                  !.humid_label.color = new_color,
                  !.icon_label.text = IF ~is_high THEN ICON_OK ELSE ICON_ALERT,
                  !.icon_label.color = IF ~is_high THEN COLOR_GREEN ELSE COLOR_RED]

FlipWritesSCD40 ==
    {<<"color_palette", "entry0">>, <<"co2_label", "color">>, <<"co2_value", "color">>,
     <<"temp_label", "color">>, <<"humid_label", "color">>,
     <<"icon_label", "text">>, <<"icon_label", "color">>}

(* update_labels(co2, temp, humidity, is_high) of the SCD40 script *)
update_labels_scd40(d, pv, co2, temp, humidity, is_high) ==
    LET flip == IsHighChanged(pv, is_high)
        d1 == IF flip THEN FlipSCD40(d, is_high) ELSE d
        w1 == IF flip THEN FlipWritesSCD40 ELSE {}
        c  == Co2Changed(pv, co2)
        d2 == IF c THEN [d1 EXCEPT !.co2_label.text = Headline(is_high),
                                   !.co2_value.text = ToString(co2)]
                   ELSE d1
        w2 == IF c THEN {<<"co2_label", "text">>, <<"co2_value", "text">>} ELSE {}
        t  == TempChanged(pv, temp)
        d3 == IF t THEN [d2 EXCEPT !.temp_label.text = ToString(temp) \o "°F"] ELSE d2
        w3 == IF t THEN {<<"temp_label", "text">>} ELSE {}
        h  == HumidityChanged(pv, humidity)
        d4 == IF h THEN [d3 EXCEPT !.humid_label.text = ToString(humidity) \o "%"] ELSE d3
        w4 == IF h THEN {<<"humid_label", "text">>} ELSE {}
    IN  Frame(d4,
              [co2 |-> Some(co2), temp |-> Some(temp),
               humidity |-> Some(humidity), is_high |-> Some(is_high)],
              w1 \cup w2 \cup w3 \cup w4,
              FALSE)

(* led.value = False if (not is_high and not voc_is_high) else True *)
LedValueCo2Only(is_high, voc_is_high) == is_high

LedValue(is_high, voc_is_high) == IF (~is_high /\ ~voc_is_high) THEN FALSE ELSE TRUE

FlipSGP30(d, is_high) ==
    LET new_color == IF is_high THEN COLOR_BLACK ELSE COLOR_WHITE
    IN  [d EXCEPT !.color_palette.entry0 = IF is_high THEN COLOR_WHITE ELSE COLOR_BLACK,
                  !.co2_label.color = new_color,
                  !.co2_value.color = new_color,
                  !.voc_status.color = new_color,
                  !.voc_label.color = new_color,
                  !.icon_label.text = IF ~is_high THEN ICON_OK ELSE ICON_ALERT,
                  !.icon_label.color = IF is_high THEN COLOR_RED ELSE COLOR_GREEN]

FlipWritesSGP30 ==
    {<<"color_palette", "entry0">>, <<"co2_label", "color">>, <<"co2_value", "color">>,
     <<"voc_status", "color">>, <<"voc_label", "color">>,
     <<"icon_label", "text">>, <<"icon_label", "color">>}

(* update_labels(co2, voc, is_high) of the SGP30 script *)
update_labels_sgp30(d, pv, co2, voc, is_high) ==
    LET voc_is_high == voc >= VOC_THRESHOLD
        flip == IsHighChanged(pv, is_high)
        d1 == IF flip THEN FlipSGP30(d, is_high) ELSE d
        w1 == IF flip THEN FlipWritesSGP30 ELSE {}
        c  == Co2Changed(pv, co2)
        d2 == IF c THEN [d1 EXCEPT !.co2_label.text = Headline(is_high),
                                   !.co2_value.text = ToString(co2)]
                   ELSE d1
        w2 == IF c THEN {<<"co2_label", "text">>, <<"co2_value", "text">>} ELSE {}
        v  == VocChanged(pv, voc)
        d3 == IF v THEN [d2 EXCEPT !.voc_status.text = "VOC:",
                                   !.voc_status.color =
                                       IF ~voc_is_high THEN COLOR_GREEN ELSE COLOR_RED,
                                   !.voc_label.text = ToString(voc)]
                   ELSE d2
        w3 == IF v THEN {<<"voc_status", "text">>, <<"voc_status", "color">>,
                         <<"voc_label", "text">>}
                   ELSE {}
    IN  Frame(d3,
              [co2 |-> Some(co2), voc |-> Some(voc), is_high |-> Some(is_high)],
              w1 \cup w2 \cup w3,
              LedValue(is_high, voc_is_high))

-----------------------------------------------------------------------------
(* Contents of sgp30_baseline.json *)
FileAbsent == [kind |-> "absent"]
FileUnreadable == [kind |-> "unreadable"]          \* open or read fails with OSError
FileMissingField == [kind |-> "missing_field"]     \* a JSON object without eCO2 or TVOC
FileMalformed == [kind |-> "malformed"]            \* not JSON, or JSON that is no object
FileRecord(b) == [kind |-> "ok", eCO2 |-> b.eCO2, TVOC |-> b.TVOC]

InitialFiles(h) ==
    IF h # "baseline"
    THEN {FileAbsent}
    ELSE {FileAbsent, FileUnreadable, FileMissingField, FileMalformed}
            \cup {FileRecord(b) : b \in BaselineReadings}

(* load_baseline(sensor): OSError and KeyError are caught, nothing else is *)
load_baseline_swapped(file) ==
    CASE file.kind = "ok" ->
            [returned |-> Some(TRUE), raised |-> FALSE,
             applied |-> Some([eCO2 |-> file.TVOC, TVOC |-> file.eCO2])]
      [] file.kind \in {"absent", "unreadable", "missing_field"} ->
            [returned |-> Some(FALSE), raised |-> FALSE, applied |-> None]
      [] OTHER ->
            [returned |-> None, raised |-> TRUE, applied |-> None]

load_baseline(file) ==
    CASE file.kind = "ok" ->
            [returned |-> Some(TRUE), raised |-> FALSE,
             applied |-> Some([eCO2 |-> file.eCO2, TVOC |-> file.TVOC])]
      [] file.kind \in {"absent", "unreadable", "missing_field"} ->
            [returned |-> Some(FALSE), raised |-> FALSE, applied |-> None]
      [] OTHER ->
            [returned |-> None, raised |-> TRUE, applied |-> None]

(* check_warmup_status(), the clock reading t *)
check_warmup_status_inclusive(t, start) ==
    LET elapsed == t - start
    IN  [warmed_up |-> elapsed >= WARMUP_TIME,
         fully_calibrated |-> elapsed >= CALIBRATION_TIME,
         elapsed_time |-> elapsed]

check_warmup_status(t, start) ==
    LET elapsed == t - start
    IN  [warmed_up |-> elapsed > WARMUP_TIME,
         fully_calibrated |-> elapsed > CALIBRATION_TIME,
         elapsed_time |-> elapsed]

(* Outcomes of the body of save_baseline once it is past its time check: it *)
(* completes, reading the sensor's baseline raises, open() raises OSError,  *)
(* or json.dump raises OSError after open() has truncated the file          *)
SaveOutcomes == {"ok", "sensor_error", "open_error", "write_error"}

(* The test of save_baseline: (current_time - start_time) > CALIBRATION_TIME *)
PastCalibrationInclusive(t, start) == (t - start) >= CALIBRATION_TIME

PastCalibration(t, start) == (t - start) > CALIBRATION_TIME

(* save_baseline(sensor), the clock reading t, the sensor's baseline b *)
save_baseline(t, start, last_save, file, b, outcome) ==
    IF PastCalibration(t, start) /\ PastCalibration(t, start)
    THEN CASE outcome = "ok" ->
                [file |-> FileRecord(b), last_baseline_save |-> t, result |-> "wrote"]
           [] outcome = "write_error" ->
                [file |-> FileMalformed, last_baseline_save |-> last_save,
                 result |-> "failed"]
           [] outcome = "open_error" ->
                [file |-> file, last_baseline_save |-> last_save, result |-> "failed"]
           [] OTHER ->
                [file |-> file, last_baseline_save |-> last_save, result |-> "raised"]
    ELSE [file |-> file, last_baseline_save |-> last_save, result |-> "noop"]

(* The test of update_baseline: current_time - last_baseline_save > interval *)
SaveDueTwice(t, last_save) == (t - last_save) > 2 * BASELINE_SAVE_INTERVAL

SaveDueInclusive(t, last_save) == (t - last_save) >= BASELINE_SAVE_INTERVAL

SaveDue(t, last_save) == (t - last_save) > BASELINE_SAVE_INTERVAL

(* update_baseline(sensor): clock reading t, and t + e read by save_baseline *)
update_baseline(t, e, start, last_save, file, b, outcome) ==
    IF SaveDue(t, last_save)
    THEN save_baseline(t + e, start, last_save, file, b, outcome)
    ELSE [file |-> file, last_baseline_save |-> last_save, result |-> "none"]

-----------------------------------------------------------------------------
(* Clock values at which an iteration of the loop is sampled: around each   *)
(* threshold the value on it, the one after it, and one a full              *)
(* UPDATE_INTERVAL later whatever the clock reads in between drifted        *)
Around(base) == {base, base + 1, base + 3 + UPDATE_INTERVAL}

InstantsSCD40(h) ==
    IF h = "loading"
    THEN (0..(1 + LoadingSpan))
            \cup {1 + LoadingSpan + k * (UPDATE_INTERVAL + MaxOverhead) : k \in 1..2}
    ELSE (0..(1 + MaxLoad))
            \cup {1 + MaxLoad + k * UPDATE_INTERVAL : k \in 1..MaxSteady}

InstantsSGP30(start, h) ==
    {start + k : k \in 0..(IF h = "loading" THEN LoadingSpan ELSE MaxLoad)}
        \cup Around(start + WARMUP_TIME)
        \cup (IF h \notin {"baseline", "saving"}
              THEN {start + WARMUP_TIME + k * (UPDATE_INTERVAL + 1) : k \in 2..MaxSteady}
              ELSE Around(BASELINE_SAVE_INTERVAL)
                    \cup UNION {Around(start + CALIBRATION_TIME + n * BASELINE_SAVE_INTERVAL)
                                    : n \in 0..MaxSaves})

(* In the "loading" horizon the iterations of the first LoadingSpan are      *)
(* followed one by one: each takes its sleep and at most MaxOverhead more   *)
Paced(t, h, first) ==
    (h = "loading" /\ now <= first + LoadingSpan) => t <= now + MaxOverhead

(* The earliest instant at which scd4x.data_ready may be other than false:  *)
(* in the "loading" horizon it is false on every iteration of the span      *)
FirstSample(h) == IF h = "loading" THEN LoadingSpan + 1 ELSE 0

(* The tests of the loading animation *)
NeverReceivedAlways(pv) == TRUE

NeverReceived(pv) == pv.co2 = None

SpinnerDueAlways(t, last) == TRUE

SpinnerDue(t, last) == t - last >= LOADING_INTERVAL

(* What becomes of an exception raised under save_baseline: OSError is      *)
(* caught by save_baseline, anything by update's "except Exception"         *)
RaisedBy(outcome) ==
    CASE outcome \in {"open_error", "write_error"} -> Some("OSError")
      [] outcome = "sensor_error" -> Some("RuntimeError")
      [] OTHER -> None

SaveCatches(exc) == exc = Some("OSError")

UpdateCatches(exc) == exc # None

SurvivesSensorErrorsOnly(exc) == exc # Some("OSError")

Survives(exc) == exc = None \/ SaveCatches(exc) \/ UpdateCatches(exc)

(* time.sleep(...) at the end of an iteration of the main loop *)
Sleep(pv) == IF pv.co2 = None THEN LOADING_PHASE_SLEEP ELSE UPDATE_INTERVAL

-----------------------------------------------------------------------------
(* The state when the main loop is entered *)
InitSCD40 ==
    /\ variant = "SCD40"
    /\ running = TRUE
    /\ last_animation_time \in BootClock
    /\ now = last_animation_time
    /\ display = InitDisplaySCD40
    /\ prev_values = InitPrevSCD40
    /\ start_time = None
    /\ last_baseline_save = 0
    /\ baseline_file = FileAbsent
    /\ iaq_baseline = None
    /\ status = None

InitSGP30 ==
    /\ variant = "SGP30"
    /\ last_animation_time \in BootClock
    /\ start_time = last_animation_time
    /\ now = start_time
    /\ last_baseline_save = 0
    /\ baseline_file \in InitialFiles(horizon)
    /\ running = ~load_baseline(baseline_file).raised
    /\ iaq_baseline = load_baseline(baseline_file).applied
    /\ display = InitDisplaySGP30
    /\ prev_values = InitPrevSGP30
    /\ status = None

InitCommon ==
    /\ InitSCD40 \/ InitSGP30
    /\ animation_frame = 0
    /\ led = FALSE
    /\ tick_kind = "setup"
    /\ call = None
    /\ writes = {}
    /\ save_result = "none"
    /\ save_invoked_at = None
    /\ save_wrote_at = None
    /\ saved_values = None
    /\ slept = None

(* The run followed for what it displays *)
Init == horizon = "display" /\ InitCommon

(* The run followed over the hours in which the baseline is saved *)
InitBaseline == horizon = "baseline" /\ InitCommon

(* The baseline run of a device that starts with no stored baseline *)
InitSaving == horizon = "saving" /\ InitCommon

(* The run followed iteration by iteration through its first 2 seconds *)
InitLoading == horizon = "loading" /\ InitCommon

-----------------------------------------------------------------------------
(* One iteration of the SCD40 main loop: update(), then time.sleep *)
NoBaseline ==
    UNCHANGED <<start_time, last_baseline_save, baseline_file, iaq_baseline, status,
                save_invoked_at, save_wrote_at, saved_values, led>>
        /\ save_result' = "none"

(* scd4x.data_ready is true and all reads succeed *)
update_scd40_render(t) ==
    \E c \in CO2Readings(horizon), tr \in TemperatureReadings, hr \in HumidityReadings :
        LET co2 == c
            temp == Fahrenheit(tr)
            humidity == HumidityPercent(hr)
            is_high == IsHigh(co2)
            f == update_labels_scd40(display, prev_values, co2, temp, humidity, is_high)
        IN  /\ display' = f.display
            /\ prev_values' = f.prev_values
            /\ writes' = f.writes
            /\ call' = Some([co2 |-> co2, temp |-> temp, humidity |-> humidity,
                             is_high |-> is_high])
            /\ tick_kind' = "render"
            /\ UNCHANGED <<animation_frame, last_animation_time>>
            /\ slept' = Some(Sleep(f.prev_values))
            /\ now' = t + Sleep(f.prev_values)

(* scd4x.data_ready is false *)
update_scd40_no_data(t) ==
    /\ IF NeverReceived(prev_values) /\ SpinnerDue(t, last_animation_time)
       THEN LET s == update_spinner_animation_scd40(display,
                         animation_frame % Len(SPINNER_CHARS))
            IN  /\ display' = s.display
                /\ writes' = s.writes
                /\ animation_frame' = animation_frame + 1
                /\ last_animation_time' = t
                /\ tick_kind' = "spinner"
       ELSE /\ UNCHANGED <<display, animation_frame, last_animation_time>>
            /\ writes' = {}
            /\ tick_kind' = "idle"
    /\ UNCHANGED <<prev_values, call>>
    /\ slept' = Some(Sleep(prev_values))
    /\ now' = t + Sleep(prev_values)

(* data_ready or one of the reads or conversions raises: caught and printed *)
update_scd40_error(t) ==
    /\ UNCHANGED <<display, prev_values, call, animation_frame, last_animation_time>>
    /\ writes' = {}
    /\ tick_kind' = "error"
    /\ slept' = Some(Sleep(prev_values))
    /\ now' = t + Sleep(prev_values)

update_scd40 ==
    /\ variant = "SCD40"
    /\ running
    /\ \E t \in InstantsSCD40(horizon) :
        /\ t >= now
        /\ Paced(t, horizon, 0)
        /\ \/ t >= FirstSample(horizon) /\ update_scd40_render(t)
           \/ update_scd40_no_data(t)
           \/ t >= FirstSample(horizon) /\ update_scd40_error(t)
    /\ NoBaseline
    /\ UNCHANGED <<variant, running, horizon>>

-----------------------------------------------------------------------------
(* One iteration of the SGP30 main loop: update(), then time.sleep.  The    *)
(* clock reading t is update's current_time and check_warmup_status's.      *)
NoSave ==
    /\ UNCHANGED <<last_baseline_save, baseline_file, save_invoked_at, save_wrote_at,
                   saved_values, running>>
    /\ save_result' = "none"

(* not status['warmed_up']: the loading animation *)
update_sgp30_warmup(t) ==
    /\ ~check_warmup_status(t, start_time).warmed_up
    /\ IF SpinnerDue(t, last_animation_time)
       THEN LET s == update_spinner_animation_sgp30(display,
                         animation_frame % Len(SPINNER_CHARS))
            IN  /\ display' = s.display
                /\ writes' = s.writes
                /\ animation_frame' = animation_frame + 1
                /\ last_animation_time' = t
                /\ tick_kind' = "spinner"
       ELSE /\ UNCHANGED <<display, animation_frame, last_animation_time>>
            /\ writes' = {}
            /\ tick_kind' = "idle"
    /\ UNCHANGED <<prev_values, call, led>>
    /\ NoSave
    /\ slept' = Some(Sleep(prev_values))
    /\ now' = t + Sleep(prev_values)

(* warmed up, sensor.eCO2 and sensor.TVOC are read, update_labels and       *)
(* update_baseline run; the later clock reads are t + d and t + d + e.      *)
(* A clock read, a baseline and an outcome are drawn only where the code    *)
(* gets that far.                                                           *)
update_sgp30_render(t) ==
    /\ check_warmup_status(t, start_time).warmed_up
    /\ \E c \in CO2Readings(horizon), v \in TVOCReadings(horizon), d \in Drift :
       \E e \in (IF SaveDue(t + d, last_baseline_save) THEN Drift ELSE {0}) :
       \E b \in (IF SaveDue(t + d, last_baseline_save) THEN BaselineReadings
                 ELSE {CHOOSE x \in BaselineReadings : TRUE}),
          outcome \in (IF SaveDue(t + d, last_baseline_save) THEN SaveOutcomes
                       ELSE {"ok"}) :
        LET co2 == c
            voc == v
            is_high == IsHigh(co2)
            f == update_labels_sgp30(display, prev_values, co2, voc, is_high)
            s == update_baseline(t + d, e, start_time, last_baseline_save,
                                 baseline_file, b, outcome)
        IN  /\ (s.result = "noop") => (outcome = "ok")
            /\ (s.result # "wrote") => (b = CHOOSE x \in BaselineReadings : TRUE)
            /\ display' = f.display
            /\ prev_values' = f.prev_values
            /\ writes' = f.writes
            /\ led' = f.led
            /\ call' = Some([co2 |-> co2, voc |-> voc, is_high |-> is_high])
            /\ tick_kind' = "render"
            /\ baseline_file' = s.file
            /\ last_baseline_save' = s.last_baseline_save
            /\ save_result' = s.result
            /\ save_invoked_at' = IF s.result = "none" THEN save_invoked_at
                                  ELSE Some(t + d + e)
            /\ save_wrote_at' = IF s.result = "wrote" THEN Some(t + d + e)
                                ELSE save_wrote_at
            /\ saved_values' = IF s.result = "wrote" THEN Some(b) ELSE saved_values
            /\ running' = Survives(IF s.result \in {"failed", "raised"}
                                   THEN RaisedBy(outcome) ELSE None)
            /\ slept' = Some(Sleep(f.prev_values))
            /\ UNCHANGED <<animation_frame, last_animation_time>>
            /\ now' = (IF s.result = "none" THEN t + d ELSE t + d + e)
                          + Sleep(f.prev_values)

(* warmed up, and reading or converting sensor.eCO2 or sensor.TVOC raises *)
update_sgp30_error_clears(t) ==
    /\ check_warmup_status(t, start_time).warmed_up
    /\ UNCHANGED <<display, call, led, animation_frame, last_animation_time>>
    /\ prev_values' = InitPrevSGP30
    /\ writes' = {}
    /\ tick_kind' = "error"
    /\ NoSave
    /\ slept' = Some(Sleep(InitPrevSGP30))
    /\ now' = t + Sleep(InitPrevSGP30)

update_sgp30_error(t) ==
    /\ check_warmup_status(t, start_time).warmed_up
    /\ UNCHANGED <<display, prev_values, call, led, animation_frame,
                   last_animation_time>>
    /\ writes' = {}
    /\ tick_kind' = "error"
    /\ NoSave
    /\ slept' = Some(Sleep(prev_values))
    /\ now' = t + Sleep(prev_values)

update_sgp30 ==
    /\ variant = "SGP30"
    /\ running
    /\ \E t \in InstantsSGP30(start_time, horizon) :
        /\ t >= now
        /\ Paced(t, horizon, start_time)
        /\ status' = Some(check_warmup_status(t, start_time))
        /\ \/ update_sgp30_warmup(t)
           \/ update_sgp30_render(t)
           \/ update_sgp30_error(t)
    /\ UNCHANGED <<variant, horizon, start_time, iaq_baseline>>

Next == update_scd40 \/ update_sgp30

Spec == Init /\ [][Next]_vars

SpecBaseline == InitBaseline /\ [][Next]_vars

SpecLoading == InitLoading /\ [][Next]_vars

(* The baseline run with the loop never stopping: while True has a next      *)
(* iteration as long as the script runs                                      *)
SpecSavingFair == InitSaving /\ [][Next]_vars /\ WF_vars(Next)

-----------------------------------------------------------------------------
(* What the claims speak of *)
CacheKnown == prev_values.co2 # None

Rendered == tick_kind = "render"

TextLabels ==
    IF variant = "SCD40" THEN {"co2_label", "co2_value", "temp_label", "humid_label"}
    ELSE {"co2_label", "co2_value", "voc_status", "voc_label"}

TextWrites == {<<l, "text">> : l \in TextLabels}

ColorWrites ==
    {<<l, "color">> : l \in TextLabels \cup {"icon_label"}}
        \cup {<<"color_palette", "entry0">>}

(* The screen that set-up followed by one render of the cached reading shows *)
ScreenOfCache ==
    IF variant = "SCD40"
    THEN update_labels_scd40(InitDisplaySCD40, InitPrevSCD40, prev_values.co2[1],
                             prev_values.temp[1], prev_values.humidity[1],
                             prev_values.is_high[1]).display
    ELSE update_labels_sgp30(InitDisplaySGP30, InitPrevSGP30, prev_values.co2[1],
                             prev_values.voc[1], prev_values.is_high[1]).display

(* C1: once the cache is known, the screen is determined by the cache alone: *)
(* whatever the history, it is the screen of the shortest history that ends  *)
(* with this cache, set-up followed by one render of the cached reading.     *)
C1_ScreenDeterminedByCache == CacheKnown => display = ScreenOfCache

(* C2: no update_labels call made with a known cache assigns to a text field *)
(* the value the field already shows.                                        *)
C2_NoRedundantTextWrite ==
    [][(Rendered' /\ CacheKnown) =>
          \A w \in writes' \cap TextWrites : display'[w[1]][w[2]] # display[w[1]][w[2]]]_vars

(* C3: an update_labels call with the same values as the call before it     *)
(* assigns nothing on the display and leaves prev_values as it was.          *)
C3_RenderIdempotent ==
    [][(Rendered' /\ call # None /\ call' = call) =>
          (writes' = {} /\ display' = display /\ prev_values' = prev_values)]_vars

C3_Witness == Rendered /\ CacheKnown /\ writes = {}

(* C4, as stated: a render in which is_high equals the cached is_high writes *)
(* no colour at all.                                                         *)
C4_ColorOnlyOnFlip ==
    [][(Rendered' /\ prev_values.is_high = Some(call'[1].is_high)) =>
          writes' \cap ColorWrites = {}]_vars

(* C4, amended: a render in which is_high equals the cached is_high writes   *)
(* no colour, but for voc_status.color of the SGP30 script, which is written *)
(* exactly when the VOC value differs from the cached one.                   *)
C4_ColorOnFlipOrVoc ==
    [][(Rendered' /\ prev_values.is_high = Some(call'[1].is_high)) =>
          writes' \cap ColorWrites =
              (IF variant = "SGP30" /\ prev_values.voc # Some(call'[1].voc)
               THEN {<<"voc_status", "color">>} ELSE {})]_vars

C4_Witness ==
    /\ Rendered /\ variant = "SGP30"
    /\ <<"voc_status", "color">> \in writes
    /\ <<"color_palette", "entry0">> \notin writes

(* The independent values of a reading and the display attributes of each *)
ValueNames == IF variant = "SCD40" THEN {"co2", "temp", "humidity"} ELSE {"co2", "voc"}

ElementsOf(v) ==
    CASE v = "co2" -> {<<"co2_label", "text">>, <<"co2_value", "text">>}
      [] v = "temp" -> {<<"temp_label", "text">>}
      [] v = "humidity" -> {<<"humid_label", "text">>}
      [] v = "voc" -> {<<"voc_status", "text">>, <<"voc_status", "color">>,
                       <<"voc_label", "text">>}

(* C5: when the reading differs from the known cache in exactly one value    *)
(* and is_high is the cached one, update_labels writes that value's elements *)
(* and nothing else, and the text of every other value's element stays.      *)
C5_OnlyChangedValueWritten ==
    [][(Rendered' /\ CacheKnown /\ prev_values.is_high = Some(call'[1].is_high)) =>
          \A v \in ValueNames :
              ({x \in ValueNames : prev_values[x] # Some(call'[1][x])} = {v}) =>
                  /\ writes' = ElementsOf(v)
                  /\ \A w \in TextWrites \ ElementsOf(v) :
                         display'[w[1]][w[2]] = display[w[1]][w[2]]]_vars

C5_Witness == Rendered /\ variant = "SCD40" /\ writes = {<<"temp_label", "text">>}

(* The labels the palette colours: all text labels, but in the SGP30 script  *)
(* not voc_status, whose colour shows the VOC level                          *)
PaletteLabels == TextLabels \ {"voc_status"}

ShowsPalette(d, high) ==
    /\ d.co2_label.text = (IF high THEN "CO2: HIGH" ELSE "CO2: good")
    /\ d.color_palette.entry0 = (IF high THEN COLOR_WHITE ELSE COLOR_BLACK)
    /\ \A l \in PaletteLabels : d[l].color = (IF high THEN COLOR_BLACK ELSE COLOR_WHITE)
    /\ d.icon_label.text = (IF high THEN ICON_ALERT ELSE ICON_OK)
    /\ d.icon_label.color = (IF high THEN COLOR_RED ELSE COLOR_GREEN)

-----------------------------------------------------------------------------
(* The classes of the warm-up status, in their order *)
Rank(st) == IF st.fully_calibrated THEN 2 ELSE IF st.warmed_up THEN 1 ELSE 0

(* C7, as stated: the thresholds belong to the upper class, warmed up from   *)
(* e = WARMUP_TIME on and fully calibrated from e = CALIBRATION_TIME on.     *)
C7_InclusiveBoundaries ==
    (status # None) =>
        /\ status[1].warmed_up = (status[1].elapsed_time >= WARMUP_TIME)
        /\ status[1].fully_calibrated = (status[1].elapsed_time >= CALIBRATION_TIME)

(* C7, amended: the thresholds belong to the lower class, warmed up exactly  *)
(* when e > WARMUP_TIME and fully calibrated exactly when                    *)
(* e > CALIBRATION_TIME; the class never decreases as e increases, and       *)
(* fully calibrated implies warmed up.                                       *)
C7_ExclusiveBoundaries ==
    [][(status' # None) =>
          /\ status'[1].warmed_up = (status'[1].elapsed_time > WARMUP_TIME)
          /\ status'[1].fully_calibrated = (status'[1].elapsed_time > CALIBRATION_TIME)
          /\ status'[1].fully_calibrated => status'[1].warmed_up
          /\ (status # None /\ status[1].elapsed_time <= status'[1].elapsed_time)
                 => Rank(status[1]) <= Rank(status'[1])]_vars

C7_Witness ==
    /\ status # None
    /\ status[1].elapsed_time = CALIBRATION_TIME
    /\ status[1].warmed_up /\ ~status[1].fully_calibrated

(* The latest clock value the last iteration read *)
LastClock == now - Sleep(prev_values)

(* C8: a save_baseline call whose clock reading is not more than             *)
(* CALIBRATION_TIME after start_time writes nothing and leaves               *)
(* last_baseline_save alone, and no iteration that ends within the           *)
(* calibration period changes the stored baseline.                           *)
C8_NoSaveBeforeCalibration ==
    [][(variant = "SGP30") =>
          /\ (save_result' # "none" /\ save_invoked_at'[1] - start_time <= CALIBRATION_TIME)
                 => /\ save_result' = "noop"
                    /\ baseline_file' = baseline_file
                    /\ last_baseline_save' = last_baseline_save
          /\ (LastClock' - start_time <= CALIBRATION_TIME)
                 => (baseline_file' = baseline_file
                        /\ last_baseline_save' = last_baseline_save)]_vars

C8_Witness ==
    /\ save_result = "noop"
    /\ save_invoked_at[1] - start_time = CALIBRATION_TIME

C10_WritesSpaced ==
    [][(save_result' = "wrote") =>
          /\ baseline_file'.kind = "ok"
          /\ save_wrote_at'[1] - start_time > CALIBRATION_TIME
          /\ (save_wrote_at # None) =>
                 save_wrote_at'[1] - save_wrote_at[1] > BASELINE_SAVE_INTERVAL]_vars

C10_Witness ==
    /\ save_result = "wrote"
    /\ save_wrote_at[1] - start_time > CALIBRATION_TIME + BASELINE_SAVE_INTERVAL
    /\ last_baseline_save = save_wrote_at[1]

(* The record a stored baseline holds, None when the file holds no record *)
StoredRecord(file) ==
    IF file.kind = "ok" THEN Some([eCO2 |-> file.eCO2, TVOC |-> file.TVOC]) ELSE None

(* C11: load_baseline run on the file that a completed write of              *)
(* save_baseline leaves applies to the sensor exactly the two values that    *)
(* were dumped, and reports True; a save_baseline call that is not past      *)
(* CALIBRATION_TIME leaves the file as it was, and load_baseline run on it   *)
(* yields the record stored before, or no baseline when none was stored.     *)
C11_SaveThenLoad ==
    [][/\ (save_result' = "wrote") =>
              LET l == load_baseline(baseline_file')
              IN  /\ ~l.raised
                  /\ l.returned = Some(TRUE)
                  /\ l.applied = saved_values'
       /\ (save_result' = "noop") =>
              LET l == load_baseline(baseline_file')
              IN  /\ baseline_file' = baseline_file
                  /\ ~l.raised
                  /\ l.applied = StoredRecord(baseline_file)
                  /\ l.returned = Some(baseline_file.kind = "ok")]_vars

C11_Witness ==
    /\ save_result = "wrote"
    /\ saved_values # None
    /\ load_baseline(baseline_file).applied = saved_values
    /\ iaq_baseline # None
    /\ iaq_baseline # saved_values

(* C12: whatever sgp30_baseline.json holds at start-up (nothing, a well      *)
(* formed record, a record lacking a field, something that is no record,     *)
(* something unreadable), load_baseline returns without raising and the      *)
(* script goes on to its main loop.                                          *)
C12_LoadNeverFatal == (variant = "SGP30") => running

(* What an iteration that is skipped leaves alone *)
TickSkipped ==
    /\ UNCHANGED <<prev_values, display, animation_frame, last_animation_time,
                   last_baseline_save, baseline_file>>
    /\ writes' = {}
    /\ slept' = Some(Sleep(prev_values))

(* C13 as stated: in both variants an iteration in which reading or          *)
(* converting any sensor value raises ends with update() returning, and      *)
(* leaves prev_values, every display element, the spinner state and the      *)
(* baseline bookkeeping as they were; the loop sleeps as before.             *)
C13_SensorErrorSkipsTick ==
    [][(tick_kind' = "error" \/ save_result' = "raised") =>
          (running' /\ TickSkipped)]_vars

(* C13, amended: an iteration in which reading or converting a value of the  *)
(* reading (data_ready, CO2, temperature, humidity; eCO2, TVOC) raises ends  *)
(* with update() returning and leaves prev_values, every display element,    *)
(* the spinner state and the baseline bookkeeping as they were, and the      *)
(* loop sleeps as before; when reading the sensor's baseline inside          *)
(* save_baseline raises, update() returns too and the baseline bookkeeping   *)
(* is as it was, but the reading of that iteration is rendered and cached.   *)
C13_ReadErrorSkipsTick ==
    [][/\ (tick_kind' = "error") => (running' /\ TickSkipped)
       /\ (save_result' = "raised") =>
              /\ running'
              /\ tick_kind' = "render"
              /\ UNCHANGED <<last_baseline_save, baseline_file>>
              /\ prev_values'.co2 = Some(call'[1].co2)
              /\ prev_values'.voc = Some(call'[1].voc)
              /\ display'.co2_value.text = ToString(call'[1].co2)]_vars

C13_Witness ==
    /\ tick_kind = "error"
    /\ variant = "SGP30"
    /\ CacheKnown
    /\ slept = Some(UPDATE_INTERVAL)
    /\ save_wrote_at # None

(* C14: when the write inside save_baseline fails with an OSError, update()  *)
(* returns: the script keeps running, the reading of that iteration is on   *)
(* the display and in prev_values, and an iteration after it that reads the  *)
(* sensor renders and caches its reading as well.                            *)
C14_FailedWriteIsSurvived ==
    [][/\ (save_result' = "failed") =>
              /\ running'
              /\ tick_kind' = "render"
              /\ prev_values'.co2 = Some(call'[1].co2)
              /\ prev_values'.voc = Some(call'[1].voc)
              /\ display'.co2_value.text = ToString(call'[1].co2)
       /\ (save_result = "failed") =>
              /\ running'
              /\ (tick_kind' = "render") =>
                     /\ prev_values'.co2 = Some(call'[1].co2)
                     /\ prev_values'.voc = Some(call'[1].voc)
                     /\ display'.co2_value.text = ToString(call'[1].co2)]_vars

C14_Witness ==
    /\ running
    /\ tick_kind = "render"
    /\ baseline_file.kind = "malformed"
    /\ save_result = "raised"

(* C15: in both variants the loop starts with prev_values["co2"] None and    *)
(* sleeps LOADING_PHASE_SLEEP while it is; it becomes known at the first     *)
(* completed render and not otherwise; once known it is never None again,    *)
(* every sleep is UPDATE_INTERVAL and the spinner writes nothing any more,   *)
(* whatever the later iterations do.                                         *)
C15_LoadingToSteadyOneWay ==
    /\ ~CacheKnown
    /\ [][/\ CacheKnown =>
                 /\ CacheKnown'
                 /\ slept' = Some(UPDATE_INTERVAL)
                 /\ tick_kind' # "spinner"
                 /\ UNCHANGED <<animation_frame, last_animation_time>>
                 /\ (tick_kind' # "render") => (writes' = {} /\ display' = display)
          /\ ~CacheKnown => (CacheKnown' <=> tick_kind' = "render")
          /\ ~CacheKnown' => slept' = Some(LOADING_PHASE_SLEEP)]_vars

C15_Witness ==
    /\ variant = "SCD40"
    /\ CacheKnown
    /\ tick_kind = "idle"
    /\ animation_frame > 0
    /\ slept = Some(UPDATE_INTERVAL)

(* The SCD40 loop while data_ready has been false on every iteration *)
OnlyNoData ==
    /\ variant = "SCD40"
    /\ horizon = "loading"
    /\ tick_kind \in {"setup", "spinner", "idle"}
    /\ call = None

(* The SCD40 loop at the end of the first 2 seconds *)
SpanOver == OnlyNoData /\ LastClock \in {LoadingSpan, LoadingSpan + 1}

(* C16 as stated: in the SCD40 variant, when data_ready has been false on    *)
(* every iteration of the first 2 seconds, prev_values is unknown,           *)
(* update_labels has not been called, the loop sleeps LOADING_PHASE_SLEEP,   *)
(* and the spinner has advanced about 20 frames.                             *)
C16_AboutTwentyFrames ==
    /\ OnlyNoData =>
          /\ prev_values = InitPrevSCD40
          /\ slept \in {None, Some(LOADING_PHASE_SLEEP)}
    /\ SpanOver => animation_frame \in 15..25

(* C16, amended: in the SCD40 variant, when data_ready has been false on     *)
(* every iteration of the first 2 seconds, prev_values is unknown,           *)
(* update_labels has not been called, the loop sleeps LOADING_PHASE_SLEEP,   *)
(* and the spinner has advanced at most once per LOADING_INTERVAL: 40 frames *)
(* at most over the span, and no fewer than one per LOADING_INTERVAL plus    *)
(* the time an iteration takes beyond its sleep.                             *)
C16_FortyFramesAtMost ==
    /\ OnlyNoData =>
          /\ prev_values = InitPrevSCD40
          /\ slept \in {None, Some(LOADING_PHASE_SLEEP)}
          /\ animation_frame * LOADING_INTERVAL <= last_animation_time
    /\ SpanOver =>
          /\ animation_frame <= LoadingSpan \div LOADING_INTERVAL
          /\ animation_frame >=
                 (LoadingSpan - 1) \div (LOADING_INTERVAL + MaxOverhead)

C16_Witness ==
    /\ SpanOver
    /\ prev_values = InitPrevSCD40
    /\ animation_frame = 40
    /\ last_animation_time = LoadingSpan

(* The display attributes a spinner frame of the SGP30 script assigns *)
SpinnerWritesSGP30 == {<<"co2_label", "text">>, <<"voc_label", "text">>}

(* C17: in the SGP30 variant an iteration whose elapsed time since           *)
(* start_time is not more than WARMUP_TIME reads no sensor value, calls      *)
(* neither update_labels nor update_baseline, writes nothing on the display  *)
(* but a spinner frame, and leaves prev_values unknown.                      *)
C17_NothingReadDuringWarmup ==
    [][(variant = "SGP30" /\ status'[1].elapsed_time <= WARMUP_TIME) =>
          /\ tick_kind' \in {"spinner", "idle"}
          /\ prev_values' = InitPrevSGP30
          /\ call' = None
          /\ save_result' = "none"
          /\ writes' \in {{}, SpinnerWritesSGP30}
          /\ \A l \in DOMAIN display \ {"co2_label", "voc_label"} :
                 display'[l] = display[l]
          /\ display'.co2_label.color = display.co2_label.color
          /\ display'.voc_label.color = display.voc_label.color]_vars

C17_Witness ==
    /\ variant = "SGP30"
    /\ status # None
    /\ status[1].elapsed_time = WARMUP_TIME
    /\ tick_kind = "spinner"
    /\ prev_values = InitPrevSGP30

(* The text co2_label shows after the spinner frame of index i *)
SpinnerText(i) == "Loading " \o SPINNER_CHARS[i + 1]

(* C18: while loading, an iteration that advances the spinner comes at       *)
(* least LOADING_INTERVAL after the previous advance, adds exactly one to    *)
(* animation_frame and shows SPINNER_CHARS[animation_frame mod 4], an index  *)
(* of the sequence, which is the glyph after the one shown before; an        *)
(* iteration less than LOADING_INTERVAL after the last advance writes        *)
(* nothing.                                                                  *)
C18_SpinnerCadence ==
    [][/\ (tick_kind' = "spinner") =>
              LET i == animation_frame % Len(SPINNER_CHARS)
              IN  /\ last_animation_time' - last_animation_time >= LOADING_INTERVAL
                  /\ last_animation_time' = now' - slept'[1]
                  /\ animation_frame' = animation_frame + 1
                  /\ i + 1 \in DOMAIN SPINNER_CHARS
                  /\ display'.co2_label.text = SpinnerText(i)
                  /\ (animation_frame > 0) =>
                         display.co2_label.text = SpinnerText((i + 3) % 4)
       /\ (/\ tick_kind' \in {"spinner", "idle"}
           /\ (now' - slept'[1]) - last_animation_time < LOADING_INTERVAL) =>
              /\ tick_kind' = "idle"
              /\ writes' = {}
              /\ display' = display
              /\ UNCHANGED <<animation_frame, last_animation_time>>]_vars

C18_Witness ==
    /\ variant = "SGP30"
    /\ tick_kind = "spinner"
    /\ animation_frame = 6
    /\ display.co2_label.text = "Loading /"
    /\ display.voc_label.text = "/"

(* save_baseline got past its time check in the latest iteration *)
SaveAttempted == save_result \in {"wrote", "failed", "raised"}

(* Sensor reads have succeeded and the storage has been writable so far *)
ReadsAndStorageFine ==
    /\ variant = "SGP30"
    /\ running
    /\ tick_kind # "error"
    /\ save_result \notin {"failed", "raised"}

(* C19: in the SGP30 variant a render whose elapsed time exceeds             *)
(* CALIBRATION_TIME, no write having been made, and a render more than       *)
(* BASELINE_SAVE_INTERVAL after the latest write, get to the body of         *)
(* save_baseline, which writes unless a sensor read or the storage fails; a  *)
(* save that fails leaves last_baseline_save unchanged and the next render   *)
(* gets to the body again; and the baseline is eventually written unless a   *)
(* sensor read or the storage fails first.                                   *)
C19_BaselineEventuallySaved ==
    /\ [][/\ (/\ variant = "SGP30"
              /\ tick_kind' = "render"
              /\ status'[1].elapsed_time > CALIBRATION_TIME
              /\ save_wrote_at = None) => SaveAttempted'
          /\ (/\ variant = "SGP30"
              /\ tick_kind' = "render"
              /\ save_wrote_at # None
              /\ (status'[1].elapsed_time + start_time) - save_wrote_at[1]
                     > BASELINE_SAVE_INTERVAL) => SaveAttempted'
          /\ (save_result' \in {"failed", "raised"}) =>
                 last_baseline_save' = last_baseline_save
          /\ (save_result \in {"failed", "raised"} /\ tick_kind' = "render") =>
                 SaveAttempted']_vars
    /\ <>(~ReadsAndStorageFine \/ save_result = "wrote")

C19_Witness ==
    /\ variant = "SGP30"
    /\ save_result = "wrote"
    /\ status[1].fully_calibrated
    /\ save_wrote_at = save_invoked_at
    /\ save_wrote_at[1] - start_time <= CALIBRATION_TIME + 3
    /\ baseline_file.kind = "ok"

(* C20: in the SGP30 variant the LED is off until update_labels has been     *)
(* called, and after a call it is on exactly when the reading of the latest  *)
(* call has co2 >= CO2_THRESHOLD or voc >= VOC_THRESHOLD.                    *)
C20_LedFollowsThresholds ==
    (variant = "SGP30") =>
        IF call = None
        THEN led = FALSE
        ELSE /\ led = (call[1].co2 >= CO2_THRESHOLD \/ call[1].voc >= VOC_THRESHOLD)
             /\ prev_values.co2 = Some(call[1].co2)
             /\ prev_values.voc = Some(call[1].voc)

C20_Witness ==
    /\ variant = "SGP30"
    /\ tick_kind = "render"
    /\ call[1].co2 < CO2_THRESHOLD
    /\ call[1].voc = VOC_THRESHOLD
    /\ led = TRUE

====
